---- MODULE Spec2Model ----
(***************************************************************************)
(* State management of the Watchtower productivity tracker                 *)
(* (core/state.ts, printed in windows-productivity/README.md, and the      *)
(* tool layer tools/productivity.ts): four JSON files (tasks, daily        *)
(* entries, sprint, sessions), each operation a load / mutate / whole-file *)
(* save, and the derived pattern analysis.                                 *)
(*                                                                         *)
(* Dates ('YYYY-MM-DD', local) are day numbers; a timestamp is             *)
(* day * 24 + hour, so that its date is ts \div 24 and its local hour is   *)
(* ts % 24.                                                                *)
(***************************************************************************)
EXTENDS Integers, Sequences, FiniteSets, TLC

VARIABLES
    today,      \* the local calendar date of the system clock
    hour,       \* the local hour of the system clock
    config,     \* getConfig(): the sprint thresholds
    disk,       \* the four backing files: tasks, daily, sprint, sessions
    last,       \* the most recent operation: its name, arguments and result
    calledToday, \* whether getSprintStatus() has already run on `today`
    proc        \* the invocations running concurrently: where each one is in
                \* its call, the tasks it has loaded and the task it adds

vars == <<today, hour, config, disk, last, calledToday, proc>>

----------------------------------------------------------------------------
(* Bounds of the model *)

\* the date of the first invocation
Day0 == 30
\* the last date the clock reaches
MaxDay == 32
\* the largest number of days the clock skips between two invocations
MaxJump == 2
\* the longest restDays list
MaxRest == 2
\* the largest number of stored tasks
MaxTasks == 2
\* the largest number of roll-forwards, over all tasks
MaxRolls == 3
\* the largest number of energy readings, over all days
MaxReadings == 3
\* the longest session history
MaxHistory == 1
\* the largest number of completions recorded in the daily entries
MaxCompletions == 2
\* the number of midnights passed one at a time
MaxMidnights == 1
\* the number of invocations running concurrently
NumProcs == 2
\* the largest number of field reports, over all days
MaxReports == 1

(* Program constants *)

\* DEFAULT_CONFIG.sprint.warningDay
DefaultWarningDay == 14
\* DEFAULT_CONFIG.sprint.dangerDay
DefaultDangerDay == 21

DefaultConfig == [warningDay |-> DefaultWarningDay, dangerDay |-> DefaultDangerDay]

\* a user configuration with earlier thresholds (validateConfig: warningDay < dangerDay)
ShortConfig == [warningDay |-> 2, dangerDay |-> 3]

\* the hours at which the program is invoked: both sides of the bounds of the
\* morning [6,12) and of the afternoon [12,18)
Hours == {5, 6, 12, 18}
FirstHour == CHOOSE h \in Hours : \A k \in Hours : h <= k

----------------------------------------------------------------------------
(* Generic state file operations *)

\* a file that does not exist or does not parse holds no data
NoData == [absent |-> TRUE]

MissingFile == [st |-> "missing", data |-> NoData]
CorruptFile == [st |-> "corrupt", data |-> NoData]

\* loadState: the default when the file is missing or JSON.parse throws
loadState(file, defaultValue) ==
    IF file.st = "ok" THEN file.data ELSE defaultValue

\* saveState: the whole file is overwritten
saveState(data) == [st |-> "ok", data |-> data]

\* dayjs().toISOString()
Now(day, hr) == day * 24 + hr
\* the local date and hour of a timestamp
DateOf(ts) == ts \div 24
HourOf(ts) == ts % 24

----------------------------------------------------------------------------
(* Sprint tracking *)

\* the default of recordRestDay (currentDay 0) used in both functions
DefaultSprintFromZero(currentDay, day) ==
    [currentDay |-> 0, startDate |-> day, lastWorkDay |-> day,
     restDays |-> <<>>]

\* the default SprintStore of getSprintStatus (currentDay 1) and of
\* recordRestDay (currentDay 0)
DefaultSprint(currentDay, day) ==
    [currentDay |-> currentDay, startDate |-> day, lastWorkDay |-> day,
     restDays |-> <<>>]

\* dayjs(a).diff(dayjs(b), 'day')
DaysBetween(a, b) == a - b

\* the store without the lastWorkDay update
AdvanceSprintKeepLastWorkDay(store, day) ==
    IF DaysBetween(day, store.lastWorkDay) > 1
    THEN [store EXCEPT !.currentDay = 1, !.startDate = day]
    ELSE [store EXCEPT !.currentDay = @ + 1]

\* the store with a gap of one day treated as a rest gap
AdvanceSprintResetOnOne(store, day) ==
    IF DaysBetween(day, store.lastWorkDay) >= 1
    THEN [store EXCEPT !.currentDay = 1, !.startDate = day, !.lastWorkDay = day]
    ELSE [store EXCEPT !.currentDay = @ + 1, !.lastWorkDay = day]

\* getSprintStatus, the branch taken when store.lastWorkDay !== today
AdvanceSprint(store, day) ==
    IF DaysBetween(day, store.lastWorkDay) > 1
    THEN [store EXCEPT !.currentDay = 1, !.startDate = day, !.lastWorkDay = day]
    ELSE [store EXCEPT !.currentDay = @ + 1, !.lastWorkDay = day]

\* the classification with the warning threshold exclusive
SprintHealthExclusive(currentDay, cfg) ==
    IF currentDay >= cfg.dangerDay THEN "danger"
    ELSE IF currentDay > cfg.warningDay THEN "warning"
    ELSE "healthy"

\* getSprintStatus, "Determine status"
SprintHealth(currentDay, cfg) ==
    IF currentDay >= cfg.dangerDay THEN "danger"
    ELSE IF currentDay >= cfg.warningDay THEN "warning"
    ELSE "healthy"

\* store.restDays[store.restDays.length - 1]: undefined on an empty list
LastRestDay(restDays) ==
    IF Len(restDays) = 0 THEN <<>> ELSE <<restDays[Len(restDays)]>>

\* the SprintStatus of an operation that asked for none
NoStatus == [currentDay |-> -1, startDate |-> -1, status |-> "none",
             lastRestDay |-> <<>>]

\* the rest of the call that advances the store found in the file at the
\* time of the save, not the store it loaded
getSprintStatusFromStored(d, loaded, cfg, day) ==
    LET advance == loaded.lastWorkDay # day
        store == IF advance
                 THEN AdvanceSprint(loadState(d.sprint, DefaultSprint(1, day)), day)
                 ELSE loaded
    IN  [disk |-> IF advance THEN [d EXCEPT !.sprint = saveState(store)] ELSE d,
         ret |-> [currentDay |-> store.currentDay,
                  startDate |-> store.startDate,
                  status |-> SprintHealth(store.currentDay, cfg),
                  lastRestDay |-> LastRestDay(store.restDays)]]

\* getSprintStatus() after its loadState, with the store it loaded: the disk
\* after the call and the SprintStatus returned
getSprintStatusFrom(d, loaded, cfg, day) ==
    LET advance == loaded.lastWorkDay # day
        store == IF advance THEN AdvanceSprint(loaded, day) ELSE loaded
    IN  [disk |-> IF advance THEN [d EXCEPT !.sprint = saveState(store)] ELSE d,
         ret |-> [currentDay |-> store.currentDay,
                  startDate |-> store.startDate,
                  status |-> SprintHealth(store.currentDay, cfg),
                  lastRestDay |-> LastRestDay(store.restDays)]]

\* getSprintStatus(): the disk after the call and the SprintStatus returned
getSprintStatusOn(d, cfg, day) ==
    getSprintStatusFrom(d, loadState(d.sprint, DefaultSprint(1, day)), cfg, day)

\* the rest day that also moves lastWorkDay to the day of the call
recordRestDayMovingLastWorkDay(d, day) ==
    LET loaded == loadState(d.sprint, DefaultSprint(0, day))
        store == [loaded EXCEPT !.restDays = Append(@, day),
                                !.currentDay = 0,
                                !.startDate = day + 1,
                                !.lastWorkDay = day]
    IN  [d EXCEPT !.sprint = saveState(store)]

\* recordRestDay(): the disk after the call
recordRestDayOn(d, day) ==
    LET loaded == loadState(d.sprint, DefaultSprint(0, day))
        store == [loaded EXCEPT !.restDays = Append(@, day),
                                !.currentDay = 0,
                                !.startDate = day + 1]
    IN  [d EXCEPT !.sprint = saveState(store)]

----------------------------------------------------------------------------
(* Task management *)

\* TaskPriority
Priorities == {"deep", "standard", "light", "someday"}

\* a string of the program, as its sequence of characters
\* toLowerCase() of one character
LowerChar(c) == IF c = "W" THEN "w" ELSE IF c = "R" THEN "r" ELSE c

\* s.toLowerCase()
ToLowerCase(s) == [i \in DOMAIN s |-> LowerChar(s[i])]

\* s.includes(q)
Includes(s, q) ==
    \E k \in 0..(Len(s) - Len(q)) : \A i \in 1..Len(q) : s[k + i] = q[i]

\* the note `Rolled forward on ${date}` and a note given by the user
RollNote(day) == [rolled |-> TRUE, date |-> day, text |-> <<>>]
UserNote(text) == [rolled |-> FALSE, date |-> -1, text |-> text]

\* the TaskStore of a missing tasks.json
DefaultTaskStore == [tasks |-> <<>>, lastUpdated |-> -1]

loadTasks(d) == loadState(d.tasks, DefaultTaskStore).tasks

saveTasks(d, tasks, now) ==
    [d EXCEPT !.tasks = saveState([tasks |-> tasks, lastUpdated |-> now])]

\* generateId(): `${Date.now()}-${Math.random()...}`
generateId(now, rand) == <<now, rand>>

\* tasks.find((t) => t.id === taskId): the index of the first match, 0 if none
FindById(tasks, taskId) ==
    IF \E i \in DOMAIN tasks : tasks[i].id = taskId
    THEN CHOOSE i \in DOMAIN tasks :
            /\ tasks[i].id = taskId
            /\ \A j \in 1..(i - 1) : tasks[j].id # taskId
    ELSE 0

\* a task's completedAt is an optional field: <<>> when unset
IsCompleted(t) == t.completedAt # <<>>

\* the write that first reads the file again (a locked read-modify-write)
WriteBackMerged(d, loaded, newTask, now) ==
    saveTasks(d, Append(loadTasks(d), newTask), now)

\* addTask, tasks.push(newTask); saveTasks(tasks): the array loaded at the
\* start of the call, with the new task, overwrites the file
WriteBack(d, loaded, newTask, now) ==
    saveTasks(d, Append(loaded, newTask), now)

\* addTask(content, priority)
addTaskOn(d, content, priority, id, now) ==
    LET newTask == [id |-> id, content |-> content, priority |-> priority,
                    createdAt |-> now, rollForwardCount |-> 0,
                    completedAt |-> <<>>, notes |-> <<>>]
    IN  [disk |-> WriteBack(d, loadTasks(d), newTask, now),
         ret |-> <<newTask>>]

\* completeTask with saveTasks(tasks) outside the if
completeTaskAlwaysSaving(d, taskId, now) ==
    LET tasks == loadTasks(d)
        i == FindById(tasks, taskId)
        done == [tasks EXCEPT ![i].completedAt = <<now>>]
    IN  IF i = 0 THEN [disk |-> saveTasks(d, tasks, now), ret |-> <<>>]
        ELSE [disk |-> saveTasks(d, done, now), ret |-> <<done[i]>>]

\* completeTask that drops the completed task from the store
completeTaskRemoving(d, taskId, now) ==
    LET tasks == loadTasks(d)
        i == FindById(tasks, taskId)
        done == [tasks EXCEPT ![i].completedAt = <<now>>]
        rest == SubSeq(tasks, 1, i - 1) \o SubSeq(tasks, i + 1, Len(tasks))
    IN  IF i = 0 THEN [disk |-> d, ret |-> <<>>]
        ELSE [disk |-> saveTasks(d, rest, now), ret |-> <<done[i]>>]

\* completeTask that keeps the completedAt of a task already completed
completeTaskKeepingFirst(d, taskId, now) ==
    LET tasks == loadTasks(d)
        i == FindById(tasks, taskId)
        done == [tasks EXCEPT ![i].completedAt = <<now>>]
    IN  IF i = 0 THEN [disk |-> d, ret |-> <<>>]
        ELSE IF IsCompleted(tasks[i]) THEN [disk |-> d, ret |-> <<tasks[i]>>]
        ELSE [disk |-> saveTasks(d, done, now), ret |-> <<done[i]>>]

\* completeTask(taskId): the task or null (<<>>)
completeTaskOn(d, taskId, now) ==
    LET tasks == loadTasks(d)
        i == FindById(tasks, taskId)
        done == [tasks EXCEPT ![i].completedAt = <<now>>]
    IN  IF i = 0 THEN [disk |-> d, ret |-> <<>>]
        ELSE [disk |-> saveTasks(d, done, now), ret |-> <<done[i]>>]

\* the roll-forward that leaves a completed task alone
RollForwardUnlessCompleted(t, day) ==
    IF IsCompleted(t) THEN t
    ELSE [t EXCEPT !.rollForwardCount = @ + 1,
                   !.notes = Append(@, RollNote(day))]

\* the roll-forward that appends no note
RollForwardNoNote(t, day) == [t EXCEPT !.rollForwardCount = @ + 1]

\* rollForwardTask, the change made to the task found
RollForward(t, day) ==
    [t EXCEPT !.rollForwardCount = @ + 1,
              !.notes = Append(@, RollNote(day))]

\* rollForwardTask(taskId): the task or null (<<>>)
rollForwardTaskOn(d, taskId, day, now) ==
    LET tasks == loadTasks(d)
        i == FindById(tasks, taskId)
        rolled == [tasks EXCEPT ![i] = RollForward(@, day)]
    IN  IF i = 0 THEN [disk |-> d, ret |-> <<>>]
        ELSE [disk |-> saveTasks(d, rolled, now), ret |-> <<rolled[i]>>]

\* tasks.filter(...) is SelectSeq: the matching elements, in array order

\* the filter without the completedAt test
HasPriorityAlsoCompleted(t, priority) == t.priority = priority

\* getTasksByPriority, the filter
HasPriority(t, priority) == t.priority = priority /\ ~IsCompleted(t)

getTasksByPriorityOn(d, priority) ==
    LET keep(t) == HasPriority(t, priority)
    IN  SelectSeq(loadTasks(d), keep)

\* the filter with a strict comparison
AvoidedStrict(t, minRollCount) ==
    t.rollForwardCount > minRollCount /\ ~IsCompleted(t)

\* the filter that forgets completion
AvoidedAlsoCompleted(t, minRollCount) == t.rollForwardCount >= minRollCount

\* getAvoidedTasks, the filter's predicate
Avoided(t, minRollCount) ==
    t.rollForwardCount >= minRollCount /\ ~IsCompleted(t)

getAvoidedTasksOn(d, minRollCount) ==
    LET keep(t) == Avoided(t, minRollCount)
    IN  SelectSeq(loadTasks(d), keep)

----------------------------------------------------------------------------
(* Daily entries *)

\* the DailyStore of a missing daily.json: no entry
NoEntries == [x \in {} |-> NoData]

loadDailyEntries(d) == loadState(d.daily, [entries |-> NoEntries]).entries

saveDailyEntries(d, entries) ==
    [d EXCEPT !.daily = saveState([entries |-> entries])]

\* entries[key] = entry
Put(entries, key, entry) ==
    [x \in DOMAIN entries \cup {key} |-> IF x = key THEN entry ELSE entries[x]]

\* { ...current, ...updates }
Merge(current, updates) ==
    [f \in DOMAIN current \cup DOMAIN updates |->
        IF f \in DOMAIN updates THEN updates[f] ELSE current[f]]

\* the entry created with the currentDay read from sprint.json, without a
\* getSprintStatus() call
getTodayEntryStoredDay(d, cfg, day) ==
    LET entries == loadDailyEntries(d)
        created == [date |-> day,
                    sprintDay |-> loadState(d.sprint, DefaultSprint(1, day)).currentDay,
                    energyReadings |-> <<>>, tasksCompleted |-> <<>>,
                    tasksRolledForward |-> <<>>, fieldReports |-> <<>>]
    IN  IF day \in DOMAIN entries
        THEN [disk |-> d, ret |-> entries[day], called |-> FALSE,
              status |-> NoStatus]
        ELSE [disk |-> saveDailyEntries(d, Put(entries, day, created)),
              ret |-> created, called |-> FALSE, status |-> NoStatus]

\* getTodayEntry(): a missing entry is created with the sprint day of a
\* getSprintStatus() call and saved
getTodayEntryOn(d, cfg, day) ==
    LET entries == loadDailyEntries(d)
        s == getSprintStatusOn(d, cfg, day)
        created == [date |-> day, sprintDay |-> s.ret.currentDay,
                    energyReadings |-> <<>>, tasksCompleted |-> <<>>,
                    tasksRolledForward |-> <<>>, fieldReports |-> <<>>]
    IN  IF day \in DOMAIN entries
        THEN [disk |-> d, ret |-> entries[day], called |-> FALSE,
              status |-> NoStatus]
        ELSE [disk |-> saveDailyEntries(s.disk, Put(entries, day, created)),
              ret |-> created, called |-> TRUE, status |-> s.ret]

\* updateTodayEntry(updates)
updateTodayEntryOn(d, cfg, day, updates) ==
    LET entries == loadDailyEntries(d)
        g == getTodayEntryOn(d, cfg, day)
        merged == Merge(g.ret, updates)
    IN  [disk |-> saveDailyEntries(g.disk, Put(entries, day, merged)),
         ret |-> merged, called |-> g.called, status |-> g.status]

\* addFieldReport(report): `[${dayjs().format('HH:mm')}] ${report}`
addFieldReportOn(d, cfg, day, hr, report) ==
    LET g == getTodayEntryOn(d, cfg, day)
        entry == [g.ret EXCEPT !.fieldReports =
                        Append(@, [hhmm |-> hr, text |-> report])]
        u == updateTodayEntryOn(g.disk, cfg, day, entry)
    IN  [disk |-> u.disk, ret |-> entry, called |-> g.called,
         status |-> g.status]

----------------------------------------------------------------------------
(* Energy tracking *)

EnergyLevels == {"high", "medium", "low", "depleted", "recovery"}

\* logEnergy that stores its reading in place of the earlier ones
logEnergyReplacing(d, cfg, day, now, level, context) ==
    LET reading == [timestamp |-> now, level |-> level, context |-> context]
        g == getTodayEntryOn(d, cfg, day)
        entry == [g.ret EXCEPT !.energyReadings = <<reading>>]
        u == updateTodayEntryOn(g.disk, cfg, day, entry)
    IN  [disk |-> u.disk, ret |-> reading, called |-> g.called,
         status |-> g.status]

\* logEnergy(level, context)
logEnergyOn(d, cfg, day, now, level, context) ==
    LET reading == [timestamp |-> now, level |-> level, context |-> context]
        g == getTodayEntryOn(d, cfg, day)
        entry == [g.ret EXCEPT !.energyReadings = Append(@, reading)]
        u == updateTodayEntryOn(g.disk, cfg, day, entry)
    IN  [disk |-> u.disk, ret |-> reading, called |-> g.called,
         status |-> g.status]

\* the window that compares calendar dates and includes the cutoff date
InWindowByDate(date, days, now) == date >= DateOf(now) - days

\* dayjs(date).isAfter(dayjs().subtract(days, 'day')): the local midnight of
\* `date` is later than the instant `days` days before now
InWindow(date, days, now) == Now(date, 0) > now - days * 24

\* the keys of the entries in the order Object.entries walks them: the order
\* of insertion, which is the order of the dates
RECURSIVE KeysInOrder(_)
KeysInOrder(S) ==
    IF S = {} THEN <<>>
    ELSE LET m == CHOOSE x \in S : \A y \in S : x <= y
         IN  <<m>> \o KeysInOrder(S \ {m})

\* readings.push(...entry.energyReadings) for each entry in the window
RECURSIVE Collect(_, _, _, _)
Collect(entries, keys, days, now) ==
    IF keys = <<>> THEN <<>>
    ELSE (IF InWindow(Head(keys), days, now)
          THEN entries[Head(keys)].energyReadings ELSE <<>>)
         \o Collect(entries, Tail(keys), days, now)

\* Array.prototype.sort by timestamp: a stable insertion of each reading
RECURSIVE Insert(_, _)
Insert(sorted, r) ==
    IF sorted = <<>> THEN <<r>>
    ELSE IF Head(sorted).timestamp <= r.timestamp
         THEN <<Head(sorted)>> \o Insert(Tail(sorted), r)
         ELSE <<r>> \o sorted

RECURSIVE SortByTimestamp(_)
SortByTimestamp(readings) ==
    IF readings = <<>> THEN <<>>
    ELSE Insert(SortByTimestamp(SubSeq(readings, 1, Len(readings) - 1)),
                readings[Len(readings)])

\* getRecentEnergyReadings(days)
getRecentEnergyReadingsOn(d, days, now) ==
    LET entries == loadDailyEntries(d)
    IN  SortByTimestamp(Collect(entries, KeysInOrder(DOMAIN entries), days, now))

\* levelValues
LevelValue(level) ==
    CASE level = "high" -> 5
      [] level = "medium" -> 4
      [] level = "low" -> 3
      [] level = "depleted" -> 2
      [] level = "recovery" -> 1

\* a quotient of two integers, kept exact
Rat(num, den) == [num |-> num, den |-> den]
RatLess(x, y) == x.num * y.den < y.num * x.den
RatEq(x, y) == x.num * y.den = y.num * x.den

\* readings.reduce((acc, r) => acc + levelValues[r.level], 0)
RECURSIVE SumLevels(_)
SumLevels(readings) ==
    IF readings = <<>> THEN 0
    ELSE LevelValue(Head(readings).level) + SumLevels(Tail(readings))

\* the mean that takes no reading for a medium level
calculateAverageEnergyNeutral(readings) ==
    IF Len(readings) = 0 THEN Rat(4, 1)
    ELSE Rat(SumLevels(readings), Len(readings))

\* calculateAverageEnergy(readings): 0 for no reading
calculateAverageEnergy(readings) ==
    IF Len(readings) = 0 THEN Rat(0, 1)
    ELSE Rat(SumLevels(readings), Len(readings))

----------------------------------------------------------------------------
(* Session management *)

SessionTypes == {"briefing", "card", "energy", "accountability", "general"}

\* the SessionStore of a missing sessions.json; currentSession is optional
DefaultSessionStore == [currentSession |-> <<>>, history |-> <<>>]

\* getCurrentSession(): the session or null (<<>>)
getCurrentSessionOn(d) ==
    loadState(d.sessions, DefaultSessionStore).currentSession

\* startSession(type)
startSessionOn(d, type, id, now) ==
    LET store == loadState(d.sessions, DefaultSessionStore)
        session == [id |-> id, startedAt |-> now, lastActivity |-> now,
                    type |-> type]
    IN  [d EXCEPT !.sessions =
            saveState([currentSession |-> <<session>>,
                       history |-> store.history \o store.currentSession])]

\* updateSession(updates)
updateSessionOn(d, updates, now) ==
    LET store == loadState(d.sessions, DefaultSessionStore)
        merged == [Merge(store.currentSession[1], updates)
                        EXCEPT !.lastActivity = now]
    IN  IF store.currentSession = <<>> THEN d
        ELSE [d EXCEPT !.sessions =
                saveState([store EXCEPT !.currentSession = <<merged>>])]

\* endSession with history.unshift in place of history.push
endSessionPrepending(d) ==
    LET store == loadState(d.sessions, DefaultSessionStore)
    IN  IF store.currentSession = <<>> THEN d
        ELSE [d EXCEPT !.sessions =
                saveState([currentSession |-> <<>>,
                           history |-> store.currentSession \o store.history])]

\* endSession()
endSessionOn(d) ==
    LET store == loadState(d.sessions, DefaultSessionStore)
    IN  IF store.currentSession = <<>> THEN d
        ELSE [d EXCEPT !.sessions =
                saveState([currentSession |-> <<>>,
                           history |-> store.history \o store.currentSession])]

----------------------------------------------------------------------------
(* Pattern analysis *)

\* the avoidance filter with a threshold of 2
InAvoidancePatternTwo(t) == t.rollForwardCount >= 2 /\ ~IsCompleted(t)

\* analyzePatterns, the filter of the avoidance patterns
InAvoidancePattern(t) == t.rollForwardCount >= 3 /\ ~IsCompleted(t)

\* t.notes?.[0]?.replace('Rolled forward on ', '') || t.createdAt
FirstRolled(t) ==
    IF t.notes = <<>> THEN [kind |-> "timestamp", value |-> t.createdAt]
    ELSE IF t.notes[1].rolled THEN [kind |-> "date", value |-> t.notes[1].date]
    ELSE [kind |-> "text", value |-> t.notes[1].text]

AvoidancePatternOf(t) ==
    [taskId |-> t.id, taskContent |-> t.content,
     rollCount |-> t.rollForwardCount, firstRolled |-> FirstRolled(t),
     category |-> t.priority]

AvoidancePatterns(tasks) ==
    LET picked == SelectSeq(tasks, InAvoidancePattern)
    IN  [i \in DOMAIN picked |-> AvoidancePatternOf(picked[i])]

\* the afternoon filter with both bounds included
IsAfternoonInclusive(r) == HourOf(r.timestamp) >= 12 /\ HourOf(r.timestamp) <= 18

\* the three filters on dayjs(r.timestamp).hour()
IsMorning(r) == HourOf(r.timestamp) >= 6 /\ HourOf(r.timestamp) < 12
IsAfternoon(r) == HourOf(r.timestamp) >= 12 /\ HourOf(r.timestamp) < 18
IsEvening(r) == HourOf(r.timestamp) >= 18 \/ HourOf(r.timestamp) < 6

EnergyTrend(period, readings) ==
    [period |-> period, averageLevel |-> calculateAverageEnergy(readings),
     sampleCount |-> Len(readings)]

EnergyTrends(allReadings) ==
    << EnergyTrend("morning", SelectSeq(allReadings, IsMorning)),
       EnergyTrend("afternoon", SelectSeq(allReadings, IsAfternoon)),
       EnergyTrend("evening", SelectSeq(allReadings, IsEvening)) >>

\* Object.values(entries).filter((e) => dayjs(e.date).isAfter(...)), as the
\* sequence of the entries kept
RecentDays(entries, now) ==
    LET keys == KeysInOrder(DOMAIN entries)
        all == [i \in DOMAIN keys |-> entries[keys[i]]]
        recent(e) == InWindow(e.date, 7, now)
    IN  SelectSeq(all, recent)

\* recentDays.reduce((acc, e) => acc + e.tasksCompleted.length, 0)
RECURSIVE TotalCompleted(_)
TotalCompleted(days) ==
    IF days = <<>> THEN 0
    ELSE Len(Head(days).tasksCompleted) + TotalCompleted(Tail(days))

\* recentDays.reduce((acc, e) => acc + e.tasksRolledForward.length, 0)
RECURSIVE TotalRolled(_)
TotalRolled(days) ==
    IF days = <<>> THEN 0
    ELSE Len(Head(days).tasksRolledForward) + TotalRolled(Tail(days))

\* the rate as the share of the roll-forwards
CompletionRateOfRolled(totalCompleted, totalRolled) ==
    IF totalCompleted + totalRolled > 0
    THEN Rat(totalRolled, totalCompleted + totalRolled)
    ELSE Rat(0, 1)

\* the rate over the completions alone
CompletionRateNoRolled(totalCompleted, totalRolled) ==
    IF totalCompleted > 0 THEN Rat(totalCompleted, totalCompleted)
    ELSE Rat(0, 1)

\* analyzePatterns, "Completion rate"
CompletionRate(totalCompleted, totalRolled) ==
    IF totalCompleted + totalRolled > 0
    THEN Rat(totalCompleted, totalCompleted + totalRolled)
    ELSE Rat(0, 1)

\* analyzePatterns, "Category balance"
CategoryBalance(tasks) ==
    [p \in Priorities |->
        LET active(t) == ~IsCompleted(t) /\ t.priority = p
        IN  Len(SelectSeq(tasks, active))]

\* the assessment that lets the energy decide alone
BurnoutRiskEnergyOnly(status, avgEnergy) ==
    IF RatLess(avgEnergy, Rat(5, 2)) THEN "high"
    ELSE IF RatLess(avgEnergy, Rat(7, 2)) THEN "medium"
    ELSE "low"

\* the assessment with the two tiers joined by "and"
BurnoutRiskBoth(status, avgEnergy) ==
    IF status = "danger" /\ RatLess(avgEnergy, Rat(5, 2)) THEN "high"
    ELSE IF status = "warning" /\ RatLess(avgEnergy, Rat(7, 2)) THEN "medium"
    ELSE "low"

\* analyzePatterns, "Burnout risk assessment": 2.5 is 5/2 and 3.5 is 7/2
BurnoutRisk(status, avgEnergy) ==
    IF status = "danger" \/ RatLess(avgEnergy, Rat(5, 2)) THEN "high"
    ELSE IF status = "warning" \/ RatLess(avgEnergy, Rat(7, 2)) THEN "medium"
    ELSE "low"

\* the analysis that asks for no sprint status and reads the stored one
analyzePatternsReadOnly(d, cfg, day, now) ==
    LET tasks == loadTasks(d)
        entries == loadDailyEntries(d)
        store == loadState(d.sprint, DefaultSprint(1, day))
        sprint == [currentDay |-> store.currentDay,
                   startDate |-> store.startDate,
                   status |-> SprintHealth(store.currentDay, cfg),
                   lastRestDay |-> LastRestDay(store.restDays)]
        allReadings == getRecentEnergyReadingsOn(d, 7, now)
        recentDays == RecentDays(entries, now)
    IN  [disk |-> d, called |-> TRUE, status |-> sprint,
         ret |-> [avoidancePatterns |-> AvoidancePatterns(tasks),
                  energyTrends |-> EnergyTrends(allReadings),
                  completionRate |-> CompletionRate(TotalCompleted(recentDays),
                                                    TotalRolled(recentDays)),
                  categoryBalance |-> CategoryBalance(tasks),
                  burnoutRisk |-> BurnoutRisk(sprint.status,
                                    calculateAverageEnergy(allReadings))]]

\* analyzePatterns()
analyzePatternsOn(d, cfg, day, now) ==
    LET tasks == loadTasks(d)
        entries == loadDailyEntries(d)
        s == getSprintStatusOn(d, cfg, day)
        allReadings == getRecentEnergyReadingsOn(s.disk, 7, now)
        recentDays == RecentDays(entries, now)
    IN  [disk |-> s.disk, called |-> TRUE, status |-> s.ret,
         ret |-> [avoidancePatterns |-> AvoidancePatterns(tasks),
                  energyTrends |-> EnergyTrends(allReadings),
                  completionRate |-> CompletionRate(TotalCompleted(recentDays),
                                                    TotalRolled(recentDays)),
                  categoryBalance |-> CategoryBalance(tasks),
                  burnoutRisk |-> BurnoutRisk(s.ret.status,
                                    calculateAverageEnergy(allReadings))]]

----------------------------------------------------------------------------
(* The tool layer *)

\* a tool's taskIdOrContent argument: a task id or a piece of text
IdQuery(id) == [isId |-> TRUE, id |-> id, text |-> <<>>]
TextQuery(text) == [isId |-> FALSE, id |-> <<>>, text |-> text]

\* tasks.find by id, then by content.toLowerCase().includes(...): 0 if none
FindByIdOrContent(tasks, q) ==
    LET matches(t) == ~q.isId /\ Includes(ToLowerCase(t.content), ToLowerCase(q.text))
    IN  IF q.isId /\ FindById(tasks, q.id) # 0 THEN FindById(tasks, q.id)
        ELSE IF \E i \in DOMAIN tasks : matches(tasks[i])
        THEN CHOOSE i \in DOMAIN tasks :
                /\ matches(tasks[i])
                /\ \A j \in 1..(i - 1) : ~matches(tasks[j])
        ELSE 0

\* toolAddTask(content, priority, notes): notes is <<>> when not given
toolAddTaskOn(d, content, priority, notes, id, now) ==
    LET a == addTaskOn(d, content, priority, id, now)
        tasks == loadTasks(a.disk)
        i == FindById(tasks, id)
        noted == [tasks EXCEPT ![i].notes = <<UserNote(notes)>>]
    IN  IF notes # <<>> /\ i # 0
        THEN [disk |-> saveTasks(a.disk, noted, now), ret |-> a.ret]
        ELSE a

\* toolCompleteTask(taskIdOrContent)
toolCompleteTaskOn(d, cfg, day, now, q) ==
    LET tasks == loadTasks(d)
        i == FindByIdOrContent(tasks, q)
        c == completeTaskOn(d, tasks[i].id, now)
        g == getTodayEntryOn(c.disk, cfg, day)
        entry == [g.ret EXCEPT !.tasksCompleted = Append(@, tasks[i].id)]
        u == updateTodayEntryOn(g.disk, cfg, day, entry)
    IN  IF i = 0 \/ IsCompleted(tasks[i])
        THEN [disk |-> d, success |-> FALSE, taskId |-> <<>>,
              called |-> FALSE, status |-> NoStatus]
        ELSE [disk |-> u.disk, success |-> TRUE, taskId |-> <<tasks[i].id>>,
              called |-> g.called, status |-> g.status]

\* toolRollForwardTask(taskIdOrContent)
toolRollForwardTaskOn(d, cfg, day, now, q) ==
    LET tasks == loadTasks(d)
        i == FindByIdOrContent(tasks, q)
        r == rollForwardTaskOn(d, tasks[i].id, day, now)
        g == getTodayEntryOn(r.disk, cfg, day)
        entry == [g.ret EXCEPT !.tasksRolledForward = Append(@, tasks[i].id)]
        u == updateTodayEntryOn(g.disk, cfg, day, entry)
    IN  IF i = 0 \/ r.ret = <<>>
        THEN [disk |-> d, success |-> FALSE, taskId |-> <<>>,
              called |-> FALSE, status |-> NoStatus]
        ELSE [disk |-> u.disk, success |-> TRUE, taskId |-> <<tasks[i].id>>,
              called |-> g.called, status |-> g.status]

----------------------------------------------------------------------------
(* The record of the most recent operation *)

\* op: the operation; again: whether the operation before it was the same,
\* on the same day; arg: its argument;
\* calledStatus: whether it ran getSprintStatus(), first: as the first call
\* of the day, pre: on which sprint file, status: with which result;
\* ok: whether it succeeded (a task found, a tool's success);
\* ret: what it returned, <<>> for nothing or null
\* before: the task a call addressed, as it was stored before the call
NoOp == [op |-> "none", again |-> FALSE, arg |-> <<>>,
         calledStatus |-> FALSE, first |-> FALSE, pre |-> MissingFile,
         status |-> NoStatus, ok |-> TRUE, ret |-> <<>>, before |-> <<>>]

Op(name) == [NoOp EXCEPT !.op = name, !.again = (last.op = name)]

\* the record of an operation that ran getSprintStatus() with result ret
WithStatus(rec, ret) ==
    [rec EXCEPT !.calledStatus = TRUE, !.first = ~calledToday,
                !.pre = disk.sprint, !.status = ret]

\* the record of an operation r that may have run getSprintStatus()
Called(rec, r) == IF r.called THEN WithStatus(rec, r.status) ELSE rec

----------------------------------------------------------------------------
(* Initial states *)

\* a sprint store as the program leaves it: a rest day recorded on the day
\* before startDate, then getSprintStatus() on every day up to lastWorkDay
WorkedSprint(currentDay, lastWorkDay) ==
    saveState([currentDay |-> currentDay,
               startDate |-> lastWorkDay - currentDay + 1,
               lastWorkDay |-> lastWorkDay,
               restDays |-> <<lastWorkDay - currentDay>>])

InitCurrentDays == {1, 12, 13, 19, 20}

SprintFiles ==
    {MissingFile} \cup
    {WorkedSprint(c, l) : c \in InitCurrentDays, l \in {Day0 - 2, Day0 - 1, Day0}}

EmptyDisk ==
    [tasks |-> MissingFile, daily |-> MissingFile, sprint |-> MissingFile,
     sessions |-> MissingFile]

\* the concurrent invocations (two terminals)
Procs == 1..NumProcs
\* an invocation that has not called anything yet
Idle == [pc |-> "idle", loaded |-> <<>>, task |-> <<>>]

\* what every initial state shares: the clock, and no operation made yet
Started ==
    /\ proc = [p \in Procs |-> Idle]
    /\ today = Day0
    /\ hour = FirstHour
    /\ last = NoOp
    /\ calledToday = (disk.sprint.st = "ok" /\ disk.sprint.data.lastWorkDay = today)

\* a sprint of any length, no other data
InitSprint ==
    /\ config \in {DefaultConfig, ShortConfig}
    /\ \E f \in SprintFiles : disk = [EmptyDisk EXCEPT !.sprint = f]
    /\ Started

\* a fresh installation
Init ==
    /\ config = ShortConfig
    /\ disk = EmptyDisk
    /\ Started

\* the four files, each one missing or unparsable
InitFailOpen ==
    /\ config = ShortConfig
    /\ disk \in [{"tasks", "daily", "sprint", "sessions"}
                    -> {MissingFile, CorruptFile}]
    /\ Started

\* a sprint one day before each change of status, no other data
InitAnalysis ==
    /\ config = DefaultConfig
    /\ \E f \in {MissingFile} \cup {WorkedSprint(c, Day0 - 1) : c \in {13, 20}} :
            disk = [EmptyDisk EXCEPT !.sprint = f]
    /\ Started

----------------------------------------------------------------------------
(* Inputs *)

\* task contents: "Wr" and "w"
Contents == {<<"W", "r">>, <<"w">>}
\* the tasks a user adds
TaskInputs == {<< <<"W", "r">>, "deep" >>, << <<"w">>, "standard" >>}
\* the outcomes of Math.random() in generateId, in the order of their first
\* use: a call returns one it returned before or the next new one
Rands == <<"r1", "r2">>
RandsOf(ids) == {Rands[k] : k \in 1..Len(Rands)} \cap {id[2] : id \in ids}
NextRands(ids) ==
    LET used == Cardinality(RandsOf(ids))
    IN  {Rands[k] : k \in 1..(IF used < Len(Rands) THEN used + 1 ELSE used)}
\* an id no task has
UnknownId == <<0, "r0">>
\* the ids a caller passes: those of the stored tasks and an unknown one
TaskIds == {loadTasks(disk)[i].id : i \in DOMAIN loadTasks(disk)} \cup {UnknownId}
\* the ids of the stored tasks
StoredIds == {loadTasks(disk)[i].id : i \in DOMAIN loadTasks(disk)}
\* the taskIdOrContent arguments: "R" is part of the first content only
Queries == {IdQuery(id) : id \in TaskIds} \cup {TextQuery(<<"R">>)}
\* the notes a user gives to toolAddTask: none, or "n"
NoteInputs == {<<>>, <<"n">>}
\* the ids of the stored sessions
SessionIds ==
    LET store == loadState(disk.sessions, DefaultSessionStore)
        all == store.history \o store.currentSession
    IN  {all[i].id : i \in DOMAIN all}
\* the energy levels a user logs
LoggedLevels == {"high", "medium", "low", "depleted"}

\* all roll-forwards made so far
RECURSIVE SumRolls(_)
SumRolls(tasks) ==
    IF tasks = <<>> THEN 0
    ELSE Head(tasks).rollForwardCount + SumRolls(Tail(tasks))

\* all energy readings logged so far
RECURSIVE CountReadings(_, _)
CountReadings(entries, keys) ==
    IF keys = {} THEN 0
    ELSE LET k == CHOOSE x \in keys : TRUE
         IN  Len(entries[k].energyReadings) + CountReadings(entries, keys \ {k})

\* all field reports added so far
RECURSIVE CountReports(_, _)
CountReports(entries, keys) ==
    IF keys = {} THEN 0
    ELSE LET k == CHOOSE x \in keys : TRUE
         IN  Len(entries[k].fieldReports) + CountReports(entries, keys \ {k})

\* the Partial<DailyEntry> a caller passes to updateTodayEntry: a list, the
\* sprint day or the date
UpdateInputs ==
    {[fieldReports |-> <<>>], [sprintDay |-> 0], [date |-> today - 1]}

\* all completions recorded so far
RECURSIVE CountCompleted(_, _)
CountCompleted(entries, keys) ==
    IF keys = {} THEN 0
    ELSE LET k == CHOOSE x \in keys : TRUE
         IN  Len(entries[k].tasksCompleted) + CountCompleted(entries, keys \ {k})

----------------------------------------------------------------------------
(* Actions *)

Clock == Now(today, hour)

\* the system clock passes midnight, possibly several times
NextDay ==
    /\ \E j \in 1..MaxJump :
        /\ today + j <= MaxDay
        /\ today' = today + j
    /\ hour' = FirstHour
    /\ calledToday' = FALSE
    /\ last' = Op("nextDay")
    /\ UNCHANGED <<proc, config, disk>>

\* the system clock passes one midnight
Midnight ==
    /\ today < Day0 + MaxMidnights
    /\ today' = today + 1
    /\ hour' = FirstHour
    /\ calledToday' = FALSE
    /\ last' = Op("midnight")
    /\ UNCHANGED <<proc, config, disk>>

\* the program is next invoked six or seven days later
NextWeek ==
    /\ today <= MaxDay
    /\ \E j \in {6, 7} : today' = today + j
    /\ hour' = FirstHour
    /\ calledToday' = FALSE
    /\ last' = Op("nextWeek")
    /\ UNCHANGED <<proc, config, disk>>

\* the system clock reaches a later hour of the day
LaterHour ==
    /\ \E h \in Hours : h > hour /\ hour' = h
    /\ last' = Op("laterHour")
    /\ UNCHANGED <<proc, today, config, disk, calledToday>>

getSprintStatus ==
    LET r == getSprintStatusOn(disk, config, today)
    IN  /\ disk' = r.disk
        /\ last' = WithStatus(Op("getSprintStatus"), r.ret)
        /\ calledToday' = TRUE
        /\ UNCHANGED <<proc, today, hour, config>>

recordRestDay ==
    /\ Len(loadState(disk.sprint, DefaultSprint(0, today)).restDays) < MaxRest
    /\ disk' = recordRestDayOn(disk, today)
    /\ last' = Op("recordRestDay")
    /\ UNCHANGED <<proc, today, hour, config, calledToday>>

\* addTask(content, priority) with one of the given inputs
addTaskOf(inputs) ==
    /\ Len(loadTasks(disk)) < MaxTasks
    /\ \E in \in inputs, rand \in NextRands(StoredIds) :
        LET r == addTaskOn(disk, in[1], in[2], generateId(Clock, rand), Clock)
        IN  /\ disk' = r.disk
            /\ last' = [Op("addTask") EXCEPT !.ret = r.ret]
    /\ UNCHANGED <<proc, today, hour, config, calledToday>>

addTask == addTaskOf(TaskInputs)

completeTask ==
    /\ \E id \in TaskIds :
        LET r == completeTaskOn(disk, id, Clock)
        IN  /\ disk' = r.disk
            /\ last' = [Op("completeTask") EXCEPT !.arg = id, !.ret = r.ret,
                            !.ok = (r.ret # <<>>),
                            !.before = IF FindById(loadTasks(disk), id) = 0 THEN <<>>
                                       ELSE <<loadTasks(disk)[FindById(loadTasks(disk), id)]>>]
    /\ UNCHANGED <<proc, today, hour, config, calledToday>>

rollForwardTask ==
    /\ SumRolls(loadTasks(disk)) < MaxRolls
    /\ \E id \in TaskIds :
        LET r == rollForwardTaskOn(disk, id, today, Clock)
        IN  /\ disk' = r.disk
            /\ last' = [Op("rollForwardTask") EXCEPT !.arg = id, !.ret = r.ret,
                                                     !.ok = (r.ret # <<>>)]
    /\ UNCHANGED <<proc, today, hour, config, calledToday>>

getTasksByPriority ==
    /\ \E priority \in Priorities :
        last' = [Op("getTasksByPriority") EXCEPT !.arg = priority,
                    !.ret = getTasksByPriorityOn(disk, priority)]
    /\ UNCHANGED <<proc, today, hour, config, disk, calledToday>>

getAvoidedTasks ==
    /\ \E n \in 1..MaxRolls :
        last' = [Op("getAvoidedTasks") EXCEPT !.arg = n,
                                              !.ret = getAvoidedTasksOn(disk, n)]
    /\ UNCHANGED <<proc, today, hour, config, disk, calledToday>>

\* toolAddTask(content, priority, notes) with one of the given inputs and notes
toolAddTaskOf(inputs, allNotes) ==
    /\ Len(loadTasks(disk)) < MaxTasks
    /\ \E in \in inputs, rand \in NextRands(StoredIds), notes \in allNotes :
        LET r == toolAddTaskOn(disk, in[1], in[2], notes,
                               generateId(Clock, rand), Clock)
        IN  /\ disk' = r.disk
            /\ last' = [Op("toolAddTask") EXCEPT !.ret = r.ret]
    /\ UNCHANGED <<proc, today, hour, config, calledToday>>

toolAddTask == toolAddTaskOf(TaskInputs, NoteInputs)

toolCompleteTask ==
    /\ CountCompleted(loadDailyEntries(disk), DOMAIN loadDailyEntries(disk)) < MaxCompletions
    /\ \E q \in Queries :
        LET r == toolCompleteTaskOn(disk, config, today, Clock, q)
        IN  /\ disk' = r.disk
            /\ last' = Called([Op("toolCompleteTask") EXCEPT !.arg = q,
                                !.ok = r.success, !.ret = r.taskId], r)
            /\ calledToday' = (calledToday \/ r.called)
    /\ UNCHANGED <<proc, today, hour, config>>

toolRollForwardTask ==
    /\ SumRolls(loadTasks(disk)) < MaxRolls
    /\ \E q \in Queries :
        LET r == toolRollForwardTaskOn(disk, config, today, Clock, q)
        IN  /\ disk' = r.disk
            /\ last' = Called([Op("toolRollForwardTask") EXCEPT !.arg = q,
                                !.ok = r.success, !.ret = r.taskId], r)
            /\ calledToday' = (calledToday \/ r.called)
    /\ UNCHANGED <<proc, today, hour, config>>

\* logEnergy(level) with one of the given levels
logEnergyOf(levels) ==
    /\ CountReadings(loadDailyEntries(disk), DOMAIN loadDailyEntries(disk)) < MaxReadings
    /\ \E level \in levels :
        LET r == logEnergyOn(disk, config, today, Clock, level, "")
        IN  /\ disk' = r.disk
            /\ last' = Called([Op("logEnergy") EXCEPT !.arg = level,
                                                      !.ret = <<r.ret>>], r)
            /\ calledToday' = (calledToday \/ r.called)
    /\ UNCHANGED <<proc, today, hour, config>>

logEnergy == logEnergyOf(LoggedLevels)

\* getRecentEnergyReadings(days), for a window of one day and of a week
getRecentEnergyReadings ==
    /\ \E days \in {1, 7} :
        last' = [Op("getRecentEnergyReadings") EXCEPT !.arg = days,
                    !.ret = getRecentEnergyReadingsOn(disk, days, Clock)]
    /\ UNCHANGED <<proc, today, hour, config, disk, calledToday>>

getCurrentSession ==
    /\ last' = [Op("getCurrentSession") EXCEPT !.ret = getCurrentSessionOn(disk)]
    /\ UNCHANGED <<proc, today, hour, config, disk, calledToday>>

\* a backing file is deleted, or left unparsable by an interrupted write
Damage ==
    /\ \E f \in DOMAIN disk, file \in {MissingFile, CorruptFile} :
        /\ disk[f].st = "ok"
        /\ disk' = [disk EXCEPT ![f] = file]
    /\ last' = Op("damage")
    /\ UNCHANGED <<proc, today, hour, config, calledToday>>

getTodayEntry ==
    LET r == getTodayEntryOn(disk, config, today)
    IN  /\ disk' = r.disk
        /\ last' = Called([Op("getTodayEntry") EXCEPT !.ret = <<r.ret>>], r)
        /\ calledToday' = (calledToday \/ r.called)
        /\ UNCHANGED <<proc, today, hour, config>>

updateTodayEntry ==
    /\ \E updates \in UpdateInputs :
        LET r == updateTodayEntryOn(disk, config, today, updates)
        IN  /\ disk' = r.disk
            /\ last' = Called([Op("updateTodayEntry") EXCEPT !.arg = updates,
                                                             !.ret = <<r.ret>>], r)
            /\ calledToday' = (calledToday \/ r.called)
    /\ UNCHANGED <<proc, today, hour, config>>

addFieldReport ==
    /\ CountReports(loadDailyEntries(disk), DOMAIN loadDailyEntries(disk)) < MaxReports
    /\ LET r == addFieldReportOn(disk, config, today, hour, "report")
       IN  /\ disk' = r.disk
           /\ last' = Called(Op("addFieldReport"), r)
           /\ calledToday' = (calledToday \/ r.called)
    /\ UNCHANGED <<proc, today, hour, config>>

\* startSession(type) with one of the given types
startSessionOf(types) ==
    /\ Len(loadState(disk.sessions, DefaultSessionStore).history) < MaxHistory
    /\ \E type \in types, rand \in NextRands(SessionIds) :
        disk' = startSessionOn(disk, type, generateId(Clock, rand), Clock)
    /\ last' = Op("startSession")
    /\ UNCHANGED <<proc, today, hour, config, calledToday>>

startSession == startSessionOf({"briefing", "general"})

\* the Partial<Session> a caller passes to updateSession
SessionUpdates == {[type |-> "card"], [context |-> "c"]}

updateSession ==
    /\ \E updates \in SessionUpdates :
        /\ disk' = updateSessionOn(disk, updates, Clock)
        /\ last' = [Op("updateSession") EXCEPT !.arg = updates]
    /\ UNCHANGED <<proc, today, hour, config, calledToday>>

endSession ==
    /\ disk' = endSessionOn(disk)
    /\ last' = Op("endSession")
    /\ UNCHANGED <<proc, today, hour, config, calledToday>>

analyzePatterns ==
    LET r == analyzePatternsOn(disk, config, today, Clock)
    IN  /\ disk' = r.disk
        /\ last' = Called([Op("analyzePatterns") EXCEPT !.ret = <<r.ret>>], r)
        /\ calledToday' = TRUE
        /\ UNCHANGED <<proc, today, hour, config>>

\* the outcomes of Math.random() in the concurrent invocations
ProcRands == <<"p1", "p2", "p3">>

\* addTask in invocation p, up to tasks.push(newTask): the store is loaded
\* and the new task is built
addTaskLoad(p) ==
    /\ proc[p].pc = "idle"
    /\ \E in \in TaskInputs :
        LET newTask == addTaskOn(disk, in[1], in[2],
                                 generateId(Clock, ProcRands[p]), Clock).ret[1]
        IN  proc' = [proc EXCEPT ![p] = [pc |-> "loaded",
                                         loaded |-> loadTasks(disk),
                                         task |-> <<newTask>>]]
    /\ last' = [Op("addTask.load") EXCEPT !.arg = p]
    /\ UNCHANGED <<today, hour, config, disk, calledToday>>

\* addTask in invocation p, saveTasks(tasks) and return newTask
addTaskSave(p) ==
    /\ proc[p].pc = "loaded"
    /\ disk' = WriteBack(disk, proc[p].loaded, proc[p].task[1], Clock)
    /\ proc' = [proc EXCEPT ![p].pc = "returned"]
    /\ last' = [Op("addTask.save") EXCEPT !.arg = p, !.ret = proc[p].task]
    /\ UNCHANGED <<today, hour, config, calledToday>>

\* two invocations, each one addTask call, at any hour of two days
NextConcurrent ==
    \/ LaterHour \/ Midnight
    \/ \E p \in Procs : addTaskLoad(p) \/ addTaskSave(p)

SpecConcurrent == Init /\ [][NextConcurrent]_vars

\* the sprint file as it was before the concurrent getSprintStatus() calls
FileBefore ==
    IF last.op \in {"getSprintStatus.load", "getSprintStatus.save"}
    THEN last.pre ELSE disk.sprint

\* getSprintStatus in invocation p, its loadState
getSprintStatusLoad(p) ==
    /\ proc[p].pc = "idle"
    /\ proc' = [proc EXCEPT ![p] =
                    [pc |-> "loaded",
                     loaded |-> <<loadState(disk.sprint, DefaultSprint(1, today))>>,
                     task |-> <<>>]]
    /\ last' = [Op("getSprintStatus.load") EXCEPT !.arg = p, !.pre = FileBefore]
    /\ UNCHANGED <<today, hour, config, disk, calledToday>>

\* getSprintStatus in invocation p, from the comparison of lastWorkDay with
\* today to the return: saveState when the day advances
getSprintStatusSave(p) ==
    /\ proc[p].pc = "loaded"
    /\ LET r == getSprintStatusFrom(disk, proc[p].loaded[1], config, today)
       IN  /\ disk' = r.disk
           /\ proc' = [proc EXCEPT ![p].pc = "returned", ![p].task = <<r.ret>>]
           /\ last' = [Op("getSprintStatus.save") EXCEPT !.arg = p,
                            !.pre = FileBefore, !.ret = <<r.ret>>]
    /\ calledToday' = TRUE
    /\ UNCHANGED <<today, hour, config>>

\* two invocations, each one getSprintStatus call, on one day
NextConcurrentSprint ==
    \E p \in Procs : getSprintStatusLoad(p) \/ getSprintStatusSave(p)

SpecConcurrentSprint == InitSprint /\ [][NextConcurrentSprint]_vars

NextSprint == NextDay \/ getSprintStatus \/ recordRestDay

SpecSprint == InitSprint /\ [][NextSprint]_vars

\* the task store alone
NextTasks ==
    \/ Midnight
    \/ addTask \/ completeTask \/ rollForwardTask
    \/ getAvoidedTasks \/ analyzePatterns

SpecTasks == Init /\ [][NextTasks]_vars

\* every operation that writes the task store, on one day
NextAllTasks ==
    \/ addTask \/ completeTask \/ rollForwardTask
    \/ toolAddTask \/ toolCompleteTask \/ toolRollForwardTask

SpecAllTasks == Init /\ [][NextAllTasks]_vars

\* the tool layer alone
NextTools ==
    \/ Midnight
    \/ toolAddTask \/ toolCompleteTask \/ toolRollForwardTask
    \/ analyzePatterns

SpecTools == Init /\ [][NextTools]_vars

\* the energy log and the sprint
NextEnergy ==
    \/ Midnight \/ NextWeek
    \/ logEnergy \/ recordRestDay \/ analyzePatterns

SpecEnergy == InitAnalysis /\ [][NextEnergy]_vars

\* the energy log at several hours of several days
NextTrends ==
    \/ LaterHour \/ NextWeek
    \/ logEnergyOf({"high", "low", "recovery"}) \/ analyzePatterns

SpecTrends == Init /\ [][NextTrends]_vars

\* the daily entries and the sprint
NextDaily ==
    \/ Midnight
    \/ getTodayEntry \/ updateTodayEntry \/ addFieldReport
    \/ logEnergyOf({"low"})
    \/ getSprintStatus \/ recordRestDay

SpecDaily == InitAnalysis /\ [][NextDaily]_vars

\* the session store, at several hours of two days
NextSessions ==
    \/ LaterHour \/ Midnight
    \/ startSession \/ updateSession \/ endSession

SpecSessions == Init /\ [][NextSessions]_vars

\* reads and writes of files that are missing or unparsable
NextFailOpen ==
    \/ Damage
    \/ getAvoidedTasks \/ getRecentEnergyReadings \/ getSprintStatus
    \/ getCurrentSession
    \/ addTaskOf({<< <<"w">>, "standard" >>}) \/ logEnergyOf({"low"})
    \/ recordRestDay \/ startSessionOf({"general"})

SpecFailOpen == InitFailOpen /\ [][NextFailOpen]_vars

\* the energy log read back on later days
NextReadings ==
    \/ LaterHour \/ Midnight \/ NextWeek
    \/ logEnergyOf({"high", "low"}) \/ getRecentEnergyReadings

SpecReadings == Init /\ [][NextReadings]_vars

\* the task store read by category
NextCategories ==
    \/ addTask \/ completeTask \/ rollForwardTask \/ getTasksByPriority

SpecCategories == Init /\ [][NextCategories]_vars

\* the tool layer over one week
NextWeekly ==
    \/ NextWeek
    \/ addTask \/ toolCompleteTask \/ toolRollForwardTask
    \/ analyzePatterns

SpecWeekly == Init /\ [][NextWeekly]_vars

\* every store
Next ==
    \/ Midnight
    \/ recordRestDay
    \/ addTaskOf({<< <<"w">>, "standard" >>}) \/ toolCompleteTask
    \/ startSessionOf({"general"}) \/ endSession
    \/ analyzePatterns

Spec == Init /\ [][Next]_vars

----------------------------------------------------------------------------
(* Sprint tracker: properties *)

SprintStored == disk.sprint.st = "ok"

\* C1: two getSprintStatus() calls in a row on the same calendar day return
\* the same currentDay, and the second leaves the sprint file as it was.
C1_SameDayIdempotent ==
    [][(last.op = "getSprintStatus" /\ last'.op = "getSprintStatus"
            /\ today' = today)
        => /\ last'.status.currentDay = last.status.currentDay
           /\ disk'.sprint = disk.sprint]_vars

\* a second call in a row, on a day on which the first call advanced the sprint
C1_Witness ==
    /\ last.op = "getSprintStatus" /\ last.again
    /\ ~last.first
    /\ SprintStored /\ disk.sprint.data.lastWorkDay = today
    /\ last.status.currentDay = 2

\* C2: the first getSprintStatus() of a day other than the persisted
\* lastWorkDay adds 1 to currentDay and keeps startDate when the gap is one
\* day, sets currentDay to 1 and startDate to today when the gap is longer,
\* and in both cases persists lastWorkDay = today.
C2_DayAdvance ==
    (last.calledStatus /\ last.pre.st = "ok"
        /\ last.pre.data.lastWorkDay # today)
    => LET old == last.pre.data
           gap == today - old.lastWorkDay
       IN  /\ SprintStored
           /\ disk.sprint.data.lastWorkDay = today
           /\ last.status.currentDay = disk.sprint.data.currentDay
           /\ last.status.startDate = disk.sprint.data.startDate
           /\ gap = 1 => /\ disk.sprint.data.currentDay = old.currentDay + 1
                         /\ disk.sprint.data.startDate = old.startDate
           /\ gap > 1 => /\ disk.sprint.data.currentDay = 1
                         /\ disk.sprint.data.startDate = today

\* the scenario's last step: a query two days after the last work day
C2_Witness ==
    /\ last.calledStatus /\ last.pre.st = "ok"
    /\ today - last.pre.data.lastWorkDay = 2
    /\ last.pre.data.currentDay = 2
    /\ last.status.currentDay = 1 /\ last.status.startDate = today

\* a rest day was recorded on the day before today
RestedYesterday ==
    /\ SprintStored
    /\ \E i \in DOMAIN disk.sprint.data.restDays :
            disk.sprint.data.restDays[i] = today - 1

\* C3: after recordRestDay() on day D, the first getSprintStatus() of day
\* D+1 returns currentDay = 1, whatever ran later on day D.
C3_RestBreaksSprint ==
    (last.calledStatus /\ last.first /\ RestedYesterday)
    => last.status.currentDay = 1

\* C27: while a sprint is counted (persisted currentDay >= 1), currentDay is
\* the number of days from startDate to lastWorkDay inclusive, so startDate
\* is not later than lastWorkDay.
C27_CountsDays ==
    (SprintStored /\ disk.sprint.data.currentDay >= 1)
    => /\ disk.sprint.data.currentDay =
            disk.sprint.data.lastWorkDay - disk.sprint.data.startDate + 1
       /\ disk.sprint.data.startDate <= disk.sprint.data.lastWorkDay

\* C8: the status returned is the classification of the returned currentDay
\* against the configured thresholds.
C8_StatusClassifies ==
    last.calledStatus
    => LET cd == last.status.currentDay
           st == last.status.status
       IN  /\ st \in {"healthy", "warning", "danger"}
           /\ st = "danger" <=> cd >= config.dangerDay
           /\ st = "warning" <=> (config.warningDay <= cd /\ cd < config.dangerDay)
           /\ st = "healthy" <=> cd < config.warningDay

\* day 21 under the default thresholds is reported as danger
C8_Witness ==
    /\ last.calledStatus /\ config = DefaultConfig
    /\ last.status.currentDay = 21 /\ last.status.status = "danger"

----------------------------------------------------------------------------
(* Task store: properties *)

\* the id a roll-forward was asked for: rollForwardTask's argument, or the
\* taskId a successful toolRollForwardTask reports
RolledId(rec) == IF rec.op = "rollForwardTask" THEN rec.arg ELSE rec.ret[1]

RollCall(rec) ==
    rec.op \in {"rollForwardTask", "toolRollForwardTask"} /\ rec.ok

\* C4: a task's rollForwardCount never decreases; it changes only in a
\* successful roll-forward call for the task's id, which adds exactly 1 to it
\* and appends exactly one note 'Rolled forward on <today>' to the task.
C4_RollForwardCount ==
    [][LET old == loadTasks(disk)
           new == loadTasks(disk')
           changed == {i \in DOMAIN old :
                         new[i].rollForwardCount # old[i].rollForwardCount}
       IN  /\ Len(new) >= Len(old)
           /\ \A i \in DOMAIN old :
                new[i].rollForwardCount >= old[i].rollForwardCount
           /\ \A i \in changed :
                /\ RollCall(last')
                /\ RolledId(last') = old[i].id
                /\ new[i].rollForwardCount = old[i].rollForwardCount + 1
                /\ new[i].notes = Append(old[i].notes, RollNote(today))
           /\ RollCall(last') => Cardinality(changed) = 1]_vars

\* a third roll-forward of a task, by the tool layer
C4_Witness ==
    /\ last.op = "toolRollForwardTask" /\ last.ok
    /\ \E i \in DOMAIN loadTasks(disk) :
        /\ loadTasks(disk)[i].id = last.ret[1]
        /\ loadTasks(disk)[i].rollForwardCount = 3
        /\ Len(loadTasks(disk)[i].notes) = 3

\* C5: once a task is completed, no operation changes its rollForwardCount,
\* its notes or its content.
C5_CompletedIsTerminal ==
    [][LET old == loadTasks(disk)
           new == loadTasks(disk')
       IN  \A i \in DOMAIN old :
            IsCompleted(old[i])
            => /\ i \in DOMAIN new
               /\ new[i].rollForwardCount = old[i].rollForwardCount
               /\ new[i].notes = old[i].notes
               /\ new[i].content = old[i].content]_vars

\* the failing run of C5: a completed task is rolled forward by the core API
C5_Failure ==
    /\ last.op = "rollForwardTask" /\ last.ok
    /\ \E i \in DOMAIN loadTasks(disk) :
        /\ loadTasks(disk)[i].id = last.arg
        /\ IsCompleted(loadTasks(disk)[i])
        /\ loadTasks(disk)[i].rollForwardCount = 1

\* the positions, in storage order, of the tasks rolled forward at least n
\* times and not completed
AvoidedAt(tasks, n) ==
    {i \in DOMAIN tasks :
        tasks[i].rollForwardCount >= n /\ tasks[i].completedAt = <<>>}

\* picked lists exactly the tasks at the positions S, in storage order
ListsInOrder(picked, tasks, S) ==
    /\ Len(picked) = Cardinality(S)
    /\ \E f \in [DOMAIN picked -> S] :
        /\ \A j, k \in DOMAIN picked : j < k => f[j] < f[k]
        /\ \A j \in DOMAIN picked : picked[j] = tasks[f[j]]

\* C7: getAvoidedTasks(n) returns exactly the tasks with rollForwardCount >= n
\* and no completedAt, in storage order; the taskIds of
\* analyzePatterns().avoidancePatterns are the ids of getAvoidedTasks(3).
C7_AvoidedTasks ==
    /\ last.op = "getAvoidedTasks"
       => ListsInOrder(last.ret, loadTasks(disk),
                       AvoidedAt(loadTasks(disk), last.arg))
    /\ last.op = "analyzePatterns"
       => LET patterns == last.ret[1].avoidancePatterns
              avoided == getAvoidedTasksOn(disk, 3)
          IN  /\ Len(patterns) = Len(avoided)
              /\ \A i \in DOMAIN patterns :
                    /\ patterns[i].taskId = avoided[i].id
                    /\ patterns[i].rollCount = avoided[i].rollForwardCount

\* a task rolled forward three times is the one avoidance pattern, another
\* task is not
C7_Witness ==
    /\ last.op = "analyzePatterns"
    /\ Len(loadTasks(disk)) = 2
    /\ Len(last.ret[1].avoidancePatterns) = 1
    /\ last.ret[1].avoidancePatterns[1].rollCount = 3

----------------------------------------------------------------------------
(* Pattern analysis: properties *)

RecentReadingsAt(entries) ==
    {p \in UNION {{<<d, i>> : i \in DOMAIN entries[d].energyReadings} :
                        d \in DOMAIN entries} :
        entries[p[1]].date > today - 7}

\* the sum of the level values of the readings at the positions P
LevelSum(entries, P) ==
    LET count(l) == Cardinality({p \in P :
                        entries[p[1]].energyReadings[p[2]].level = l})
    IN  5 * count("high") + 4 * count("medium") + 3 * count("low")
        + 2 * count("depleted") + 1 * count("recovery")

\* C9: burnoutRisk is 'high' iff the sprint status is 'danger' or the mean
\* energy of the trailing 7 days is below 2.5; otherwise 'medium' iff the
\* status is 'warning' or the mean is below 3.5; otherwise 'low'. The mean of
\* no reading is 0.
C9_BurnoutRisk ==
    last.op = "analyzePatterns"
    => LET entries == loadDailyEntries(disk)
           P == RecentReadingsAt(entries)
           n == Cardinality(P)
           sum == LevelSum(entries, P)
           status == last.status.status
           isHigh == status = "danger" \/ n = 0 \/ 2 * sum < 5 * n
           isMedium == status = "warning" \/ 2 * sum < 7 * n
           risk == last.ret[1].burnoutRisk
       IN  /\ risk \in {"high", "medium", "low"}
           /\ risk = "high" <=> isHigh
           /\ risk = "medium" <=> ~isHigh /\ isMedium
           /\ risk = "low" <=> ~isHigh /\ ~isMedium

\* a sprint in danger gives a high risk although every reading is high
C9_Witness ==
    /\ last.op = "analyzePatterns"
    /\ last.status.status = "danger"
    /\ last.ret[1].burnoutRisk = "high"
    /\ LET entries == loadDailyEntries(disk)
       IN  /\ RecentReadingsAt(entries) # {}
           /\ \A p \in RecentReadingsAt(entries) :
                entries[p[1]].energyReadings[p[2]].level = "high"

\* the dates of the entries dated in the trailing 7 days
RecentDates(entries) ==
    {d \in DOMAIN entries : entries[d].date > today - 7}

\* the number of ids in the tasksCompleted lists of the entries dated in D
CompletedIn(entries, D) ==
    Cardinality(UNION {{<<d, i>> : i \in DOMAIN entries[d].tasksCompleted} :
                            d \in D})

\* the number of ids in the tasksRolledForward lists of the entries dated in D
RolledIn(entries, D) ==
    Cardinality(UNION {{<<d, i>> : i \in DOMAIN entries[d].tasksRolledForward} :
                            d \in D})

\* C29: with no energy reading in the trailing 7 days the mean is 0, so
\* analyzePatterns() reports a high burnoutRisk whatever the sprint status,
\* a healthy one included.
C29_NoReadingIsHigh ==
    (last.op = "analyzePatterns"
        /\ RecentReadingsAt(loadDailyEntries(disk)) = {})
    => /\ calculateAverageEnergy(<<>>) = Rat(0, 1)
       /\ last.ret[1].burnoutRisk = "high"

\* a healthy sprint whose only reading, a high one, is older than 7 days
C29_Witness ==
    /\ last.op = "analyzePatterns"
    /\ last.status.status = "healthy"
    /\ RecentReadingsAt(loadDailyEntries(disk)) = {}
    /\ \E d \in DOMAIN loadDailyEntries(disk) :
            /\ Len(loadDailyEntries(disk)[d].energyReadings) = 1
            /\ loadDailyEntries(disk)[d].energyReadings[1].level = "high"
    /\ last.ret[1].burnoutRisk = "high"

\* C10: completionRate is C / (C + R), with C and R the numbers of ids in the
\* tasksCompleted and tasksRolledForward lists of the entries of the trailing
\* 7 days; it is 0 when C + R = 0, and it lies in [0, 1].
C10_CompletionRate ==
    last.op = "analyzePatterns"
    => LET entries == loadDailyEntries(disk)
           C == CompletedIn(entries, RecentDates(entries))
           R == RolledIn(entries, RecentDates(entries))
           rate == last.ret[1].completionRate
       IN  /\ rate.den > 0
           /\ 0 <= rate.num /\ rate.num <= rate.den
           /\ IF C + R = 0 THEN rate.num = 0
              ELSE rate.num * (C + R) = C * rate.den

\* a rate strictly between 0 and 1, with an older entry left out of it
C10_Witness ==
    /\ last.op = "analyzePatterns"
    /\ 0 < last.ret[1].completionRate.num
    /\ last.ret[1].completionRate.num < last.ret[1].completionRate.den
    /\ LET entries == loadDailyEntries(disk)
       IN  RolledIn(entries, DOMAIN entries \ RecentDates(entries)) > 0

\* the period of a local hour
PeriodOf(h) ==
    IF 6 <= h /\ h < 12 THEN "morning"
    ELSE IF 12 <= h /\ h < 18 THEN "afternoon"
    ELSE "evening"

\* the readings at the positions P taken in the given period
InPeriod(entries, P, period) ==
    {p \in P :
        PeriodOf(entries[p[1]].energyReadings[p[2]].timestamp % 24) = period}

\* C11: in energyTrends every reading of the trailing 7 days is counted in
\* exactly one of morning [6,12), afternoon [12,18) and evening; the three
\* sampleCounts add up to the number of readings; a bucket's averageLevel is
\* the sum of the weights of its readings over its sampleCount, and 0 with a
\* sampleCount of 0 for a bucket without readings.
C11_EnergyTrends ==
    last.op = "analyzePatterns"
    => LET entries == loadDailyEntries(disk)
           P == RecentReadingsAt(entries)
           trends == last.ret[1].energyTrends
       IN  /\ Len(trends) = 3
           /\ trends[1].period = "morning"
           /\ trends[2].period = "afternoon"
           /\ trends[3].period = "evening"
           /\ trends[1].sampleCount + trends[2].sampleCount
                + trends[3].sampleCount = Cardinality(P)
           /\ \A i \in 1..3 :
                LET B == InPeriod(entries, P, trends[i].period)
                    avg == trends[i].averageLevel
                IN  /\ trends[i].sampleCount = Cardinality(B)
                    /\ avg.den > 0
                    /\ IF B = {} THEN avg.num = 0
                       ELSE avg.num * Cardinality(B) = LevelSum(entries, B) * avg.den

\* the evening readings high, high and low average 13/3, and the morning
\* bucket is empty
C11_Witness ==
    /\ last.op = "analyzePatterns"
    /\ last.ret[1].energyTrends[3].sampleCount = 3
    /\ last.ret[1].energyTrends[3].averageLevel.num * 3
            = 13 * last.ret[1].energyTrends[3].averageLevel.den
    /\ last.ret[1].energyTrends[1].sampleCount = 0
    /\ last.ret[1].energyTrends[1].averageLevel.num = 0
    /\ last.ret[1].energyTrends[2].sampleCount = 0

\* C18: no two tasks of the task store have the same id.
C18_UniqueIds ==
    \A i, j \in DOMAIN loadTasks(disk) :
        loadTasks(disk)[i].id = loadTasks(disk)[j].id => i = j

\* the date of the earliest roll-forward note of a task that has one
EarliestRollDate(t) ==
    LET k == CHOOSE k \in DOMAIN t.notes :
                /\ t.notes[k].rolled
                /\ \A j \in 1..(k - 1) : ~t.notes[j].rolled
    IN  t.notes[k].date

\* C23: for every avoidance pattern, firstRolled is the date of the earliest
\* roll-forward note of its task, and createdAt when the task has no note,
\* also for a task that toolAddTask created with a user note.
C23_FirstRolled ==
    last.op = "analyzePatterns"
    => LET tasks == loadTasks(disk)
           patterns == last.ret[1].avoidancePatterns
       IN  \A k \in DOMAIN patterns :
            \E i \in DOMAIN tasks :
                /\ tasks[i].id = patterns[k].taskId
                /\ tasks[i].content = patterns[k].taskContent
                /\ tasks[i].rollForwardCount = patterns[k].rollCount
                /\ IF \E j \in DOMAIN tasks[i].notes : tasks[i].notes[j].rolled
                   THEN patterns[k].firstRolled =
                            [kind |-> "date", value |-> EarliestRollDate(tasks[i])]
                   ELSE patterns[k].firstRolled =
                            [kind |-> "timestamp", value |-> tasks[i].createdAt]

\* C24: completeTask(id) on a task already completed returns the task with
\* completedAt set to now; the task's other fields and all other tasks are
\* as they were.
C24_CompleteAgain ==
    [][last'.op = "completeTask"
       => LET old == loadTasks(disk)
              new == loadTasks(disk')
              hit == {i \in DOMAIN old :
                        /\ old[i].id = last'.arg
                        /\ \A j \in 1..(i - 1) : old[j].id # last'.arg}
          IN  \A i \in hit :
                old[i].completedAt # <<>>
                => /\ Len(new) = Len(old)
                   /\ new[i] = [old[i] EXCEPT
                                    !.completedAt = <<today * 24 + hour>>]
                   /\ last'.ret = <<new[i]>>
                   /\ \A j \in DOMAIN old \ {i} : new[j] = old[j]]_vars

\* a task completed on one day is completed again on the next, with a task
\* beside it
C24_Witness ==
    /\ last.op = "completeTask" /\ last.ok
    /\ last.before # <<>>
    /\ last.before[1].completedAt # <<>>
    /\ last.ret[1].completedAt # last.before[1].completedAt
    /\ Len(loadTasks(disk)) = 2

\* C25: no operation removes a task or changes a task's id, content,
\* category or createdAt; addTask stores its task behind the others and
\* leaves them as they were; completeTask and rollForwardTask change no task
\* but the first one with the id they are given.
C25_TasksKept ==
    [][LET old == loadTasks(disk)
           new == loadTasks(disk')
       IN  /\ \A i \in DOMAIN old :
                /\ i \in DOMAIN new
                /\ new[i].id = old[i].id
                /\ new[i].content = old[i].content
                /\ new[i].priority = old[i].priority
                /\ new[i].createdAt = old[i].createdAt
           /\ last'.op = "addTask"
              => /\ new = old \o last'.ret
                 /\ Len(last'.ret) = 1
           /\ last'.op \in {"completeTask", "rollForwardTask"}
              => \A i \in DOMAIN old :
                    new[i] # old[i]
                    => /\ old[i].id = last'.arg
                       /\ \A j \in 1..(i - 1) : old[j].id # last'.arg]_vars

\* a roll-forward of one of two tasks, the other one completed before
C25_Witness ==
    /\ last.op = "rollForwardTask" /\ last.ok
    /\ Len(loadTasks(disk)) = 2
    /\ \E i \in DOMAIN loadTasks(disk) :
        /\ loadTasks(disk)[i].id # last.arg
        /\ loadTasks(disk)[i].completedAt # <<>>
        /\ loadTasks(disk)[i].rollForwardCount = 0

\* the number of occurrences of id in the lists f of all daily entries
OccurrencesIn(entries, f, id) ==
    Cardinality(UNION {{<<d, i>> : i \in {j \in DOMAIN entries[d][f] :
                                                entries[d][f][j] = id}} :
                            d \in DOMAIN entries})

\* C28: under the tool layer alone, every task's id occurs in the
\* tasksRolledForward lists as often as its rollForwardCount says, and in the
\* tasksCompleted lists at most once, and there iff its completedAt is set.
C28_ListsMatchTasks ==
    LET tasks == loadTasks(disk)
        entries == loadDailyEntries(disk)
    IN  \A i \in DOMAIN tasks :
            /\ OccurrencesIn(entries, "tasksRolledForward", tasks[i].id)
                    = tasks[i].rollForwardCount
            /\ OccurrencesIn(entries, "tasksCompleted", tasks[i].id) <= 1
            /\ OccurrencesIn(entries, "tasksCompleted", tasks[i].id) = 1
                    <=> IsCompleted(tasks[i])

\* C13: completeTask(id) and rollForwardTask(id) with an id that no stored
\* task has return null and leave the task store and every other store as
\* they were.
C13_UnknownId ==
    [][(last'.op \in {"completeTask", "rollForwardTask"}
            /\ \A i \in DOMAIN loadTasks(disk) : loadTasks(disk)[i].id # last'.arg)
        => /\ last'.ret = <<>>
           /\ disk' = disk]_vars

\* completeTask of an unknown id on a store that holds a task
C13_Witness ==
    /\ last.op = "completeTask" /\ last.arg = UnknownId
    /\ last.ret = <<>>
    /\ Len(loadTasks(disk)) > 0

\* C16: recordRestDay() appends today to restDays and keeps the earlier rest
\* days in order, sets currentDay to 0 and startDate to tomorrow, and leaves
\* lastWorkDay and the other three stores as they were.
C16_RecordRestDay ==
    [][last'.op = "recordRestDay"
       => LET old == IF disk.sprint.st = "ok" THEN disk.sprint.data
                     ELSE [currentDay |-> 0, startDate |-> today,
                           lastWorkDay |-> today, restDays |-> <<>>]
              new == disk'.sprint.data
          IN  /\ disk'.sprint.st = "ok"
              /\ new.restDays = old.restDays \o <<today>>
              /\ new.currentDay = 0
              /\ new.startDate = today + 1
              /\ new.lastWorkDay = old.lastWorkDay
              /\ disk'.tasks = disk.tasks
              /\ disk'.daily = disk.daily
              /\ disk'.sessions = disk.sessions]_vars

\* a second rest day, recorded on a day after lastWorkDay, with tasks stored
C16_Witness ==
    /\ last.op = "recordRestDay"
    /\ Len(disk.sprint.data.restDays) = 2
    /\ disk.sprint.data.lastWorkDay < today
    /\ disk.sprint.data.currentDay = 0
    /\ disk.tasks.st = "ok"

\* C21: getTasksByPriority(category) returns exactly the stored tasks of that
\* category with no completedAt, in storage order; the task addTask returns
\* is stored with rollForwardCount 0 and no completedAt.
C21_TasksByPriority ==
    /\ last.op = "getTasksByPriority"
       => LET tasks == loadTasks(disk)
          IN  ListsInOrder(last.ret, tasks,
                           {i \in DOMAIN tasks :
                                /\ tasks[i].priority = last.arg
                                /\ tasks[i].completedAt = <<>>})
    /\ last.op = "addTask"
       => /\ \E i \in DOMAIN loadTasks(disk) : loadTasks(disk)[i] = last.ret[1]
          /\ last.ret[1].rollForwardCount = 0
          /\ last.ret[1].completedAt = <<>>

\* of two stored deep tasks the completed one is left out
C21_Witness ==
    /\ last.op = "getTasksByPriority" /\ last.arg = "deep"
    /\ Len(last.ret) = 1
    /\ Len(loadTasks(disk)) = 2
    /\ \A i \in DOMAIN loadTasks(disk) : loadTasks(disk)[i].priority = "deep"
    /\ \E i \in DOMAIN loadTasks(disk) : loadTasks(disk)[i].completedAt # <<>>

----------------------------------------------------------------------------
(* Daily entries: properties *)

\* C14: the daily store holds at most one entry per calendar date, every
\* entry's date is the key it is stored under, and no operation deletes an
\* entry or replaces the entry of another date than today.
C14_OneEntryPerDate ==
    [][LET old == loadDailyEntries(disk)
           new == loadDailyEntries(disk')
       IN  /\ \A d \in DOMAIN new : new[d].date = d
           /\ \A d, e \in DOMAIN new : new[d].date = new[e].date => d = e
           /\ DOMAIN old \subseteq DOMAIN new
           /\ \A d \in DOMAIN old \ {today} : new[d] = old[d]]_vars

\* C15: once the entry of a date exists, no operation changes its sprintDay.
C15_SprintDayWriteOnce ==
    [][LET old == loadDailyEntries(disk)
           new == loadDailyEntries(disk')
       IN  \A d \in DOMAIN old :
            d \in DOMAIN new /\ new[d].sprintDay = old[d].sprintDay]_vars

\* C22: the entry getTodayEntry() creates has the sprintDay a
\* getSprintStatus() call returns at that moment (the stored currentDay when
\* lastWorkDay is today, one more after a gap of one day, 1 after a longer
\* gap or without a sprint file); the creation persists lastWorkDay = today
\* when a sprint file has another lastWorkDay; a getSprintStatus() call right
\* after returns the same currentDay.
C22_EntrySprintDay ==
    [][/\ (last'.op = "getTodayEntry" /\ today \notin DOMAIN loadDailyEntries(disk))
          => LET entry == loadDailyEntries(disk')[today]
                 old == disk.sprint.data
                 gap == today - old.lastWorkDay
             IN  /\ last'.ret = <<entry>>
                 /\ last'.calledStatus
                 /\ entry.sprintDay = last'.status.currentDay
                 /\ entry.sprintDay =
                        IF disk.sprint.st # "ok" THEN 1
                        ELSE IF gap = 0 THEN old.currentDay
                        ELSE IF gap = 1 THEN old.currentDay + 1
                        ELSE 1
                 /\ (disk.sprint.st = "ok" /\ gap # 0)
                    => /\ disk'.sprint.st = "ok"
                       /\ disk'.sprint.data.lastWorkDay = today
                       /\ disk'.sprint.data.currentDay = entry.sprintDay
       /\ (last.op = "getTodayEntry" /\ last.calledStatus
                /\ last'.op = "getSprintStatus")
          => last'.status.currentDay = last.status.currentDay]_vars

\* the first entry of a new day is created on the 14th day of the sprint and
\* the sprint file is advanced to today
C22_Witness ==
    /\ last.op = "getTodayEntry" /\ last.calledStatus /\ last.first
    /\ last.pre.st = "ok"
    /\ last.pre.data.lastWorkDay = today - 1
    /\ last.pre.data.currentDay = 13
    /\ loadDailyEntries(disk)[today].sprintDay = 14
    /\ disk.sprint.data.lastWorkDay = today

\* the lists of today's entry before a call: empty when there is no entry
ListsBefore(f) ==
    IF today \in DOMAIN loadDailyEntries(disk)
    THEN loadDailyEntries(disk)[today][f]
    ELSE <<>>

----------------------------------------------------------------------------
(* Sessions: properties *)

\* C17: there is at most one current session; startSession appends the
\* current session, if any, to the end of history and installs the new one;
\* endSession appends the current session to the end of history and clears
\* the slot; every earlier history is a prefix of the later one.
C17_Sessions ==
    [][LET old == IF disk.sessions.st = "ok" THEN disk.sessions.data
                  ELSE [currentSession |-> <<>>, history |-> <<>>]
           new == IF disk'.sessions.st = "ok" THEN disk'.sessions.data
                  ELSE [currentSession |-> <<>>, history |-> <<>>]
       IN  /\ Len(new.currentSession) <= 1
           /\ Len(new.history) >= Len(old.history)
           /\ SubSeq(new.history, 1, Len(old.history)) = old.history
           /\ last'.op = "startSession"
              => /\ new.history = old.history \o old.currentSession
                 /\ Len(new.currentSession) = 1
                 /\ new.currentSession[1].startedAt = today * 24 + hour
           /\ last'.op = "endSession"
              => /\ new.history = old.history \o old.currentSession
                 /\ new.currentSession = <<>>
           /\ last'.op = "updateSession"
              => /\ new.history = old.history
                 /\ Len(new.currentSession) = Len(old.currentSession)]_vars

\* endSession has archived a second, different session behind the first
C17_Witness ==
    /\ last.op = "endSession"
    /\ disk.sessions.st = "ok"
    /\ disk.sessions.data.currentSession = <<>>
    /\ Len(disk.sessions.data.history) = 2
    /\ disk.sessions.data.history[1].startedAt
            < disk.sessions.data.history[2].startedAt

\* the readings, as (date, position) pairs, of the entries dated after
\* today - days
ReadingsSince(entries, days) ==
    {p \in UNION {{<<d, i>> : i \in DOMAIN entries[d].energyReadings} :
                        d \in DOMAIN entries} :
        p[1] > today - days}

\* C20: getRecentEnergyReadings(days) returns the readings of the entries
\* dated strictly after today - days (for 7 days: today-6 .. today), each one
\* once, in the order of their timestamps.
C20_RecentReadings ==
    last.op = "getRecentEnergyReadings"
    => LET entries == loadDailyEntries(disk)
           P == ReadingsSince(entries, last.arg)
           ret == last.ret
       IN  /\ Len(ret) = Cardinality(P)
           /\ \E f \in [DOMAIN ret -> P] :
                /\ \A j, k \in DOMAIN ret : j # k => f[j] # f[k]
                /\ \A j \in DOMAIN ret :
                        ret[j] = entries[f[j][1]].energyReadings[f[j][2]]
           /\ \A j, k \in DOMAIN ret :
                j < k => ret[j].timestamp <= ret[k].timestamp

\* of two logged days, the one exactly 7 days back is left out and the one
\* 6 days back is returned
C20_Witness ==
    /\ last.op = "getRecentEnergyReadings" /\ last.arg = 7
    /\ LET entries == loadDailyEntries(disk)
       IN  /\ today - 7 \in DOMAIN entries
           /\ today - 6 \in DOMAIN entries
           /\ entries[today - 7].energyReadings # <<>>
           /\ last.ret = entries[today - 6].energyReadings
           /\ Len(last.ret) = 2

----------------------------------------------------------------------------
(* Missing and unparsable files: properties *)

Unreadable(f) == disk[f].st # "ok"

\* the files other than f are left as they were
OthersKept(f) == \A g \in DOMAIN disk \ {f} : disk'[g] = disk[g]

\* C19: on a file that is missing or does not parse, a read returns the
\* default (no tasks, no readings, no session, sprint day 1 started today
\* with no rest day) and writes nothing; the next mutating operation
\* succeeds and persists the default with its own change only.
C19_FailOpen ==
    [][/\ (last'.op = "getAvoidedTasks" /\ Unreadable("tasks"))
          => last'.ret = <<>> /\ disk' = disk
       /\ (last'.op = "getRecentEnergyReadings" /\ Unreadable("daily"))
          => last'.ret = <<>> /\ disk' = disk
       /\ (last'.op = "getCurrentSession" /\ Unreadable("sessions"))
          => last'.ret = <<>> /\ disk' = disk
       /\ (last'.op = "getSprintStatus" /\ Unreadable("sprint"))
          => /\ last'.status.currentDay = 1
             /\ last'.status.startDate = today
             /\ last'.status.lastRestDay = <<>>
             /\ disk' = disk
       /\ (last'.op = "addTask" /\ Unreadable("tasks"))
          => /\ disk'.tasks.st = "ok"
             /\ disk'.tasks.data.tasks = last'.ret
             /\ Len(last'.ret) = 1
             /\ OthersKept("tasks")
       /\ (last'.op = "recordRestDay" /\ Unreadable("sprint"))
          => /\ disk'.sprint.st = "ok"
             /\ disk'.sprint.data = [currentDay |-> 0, startDate |-> today + 1,
                                     lastWorkDay |-> today, restDays |-> <<today>>]
             /\ OthersKept("sprint")
       /\ (last'.op = "startSession" /\ Unreadable("sessions"))
          => /\ disk'.sessions.st = "ok"
             /\ disk'.sessions.data.history = <<>>
             /\ Len(disk'.sessions.data.currentSession) = 1
             /\ OthersKept("sessions")
       /\ (last'.op = "logEnergy" /\ Unreadable("daily"))
          => /\ disk'.daily.st = "ok"
             /\ DOMAIN disk'.daily.data.entries = {today}
             /\ disk'.daily.data.entries[today].date = today
             /\ disk'.daily.data.entries[today].energyReadings = last'.ret
             /\ disk'.daily.data.entries[today].tasksCompleted = <<>>
             /\ disk'.daily.data.entries[today].tasksRolledForward = <<>>
             /\ disk'.daily.data.entries[today].fieldReports = <<>>
             /\ disk'.tasks = disk.tasks
             /\ disk'.sessions = disk.sessions]_vars

\* addTask has replaced an unreadable tasks file by a store holding its task
\* only, while the sprint file is unparsable and the daily file is written
C19_Witness ==
    /\ last.op = "addTask"
    /\ Len(loadTasks(disk)) = 1
    /\ disk.sprint.st = "corrupt"
    /\ disk.daily.st = "ok"

----------------------------------------------------------------------------
(* Concurrent invocations: properties *)

HasTask(tasks, t) == \E i \in DOMAIN tasks : tasks[i] = t

\* C12: with two invocations interleaving their load and write steps without
\* a lock, the file holds what the last writer loaded plus its own task: a
\* task that another invocation added and returned after the writer's load
\* is lost.
C12_LastWriterWins ==
    \A p \in Procs :
        (last.op = "addTask.save" /\ last.arg = p)
        => /\ HasTask(loadTasks(disk), proc[p].task[1])
           /\ \A q \in Procs \ {p} :
                (proc[q].pc = "returned"
                    /\ ~HasTask(proc[p].loaded, proc[q].task[1]))
                => ~HasTask(loadTasks(disk), proc[q].task[1])

\* both addTask calls have returned their task and the file holds one task
C12_Witness ==
    /\ \A p \in Procs : proc[p].pc = "returned" /\ proc[p].task # <<>>
    /\ Len(loadTasks(disk)) = 1
    /\ last.op = "addTask.save"

\* C30: when the invocations that ran getSprintStatus() concurrently have
\* all returned, the sprint file is the one a single call would have left
\* (on a new day: currentDay advanced by one, or reset to 1 after a gap) and
\* every invocation returned that currentDay.
C30_AdvancedOnce ==
    (\A p \in Procs : proc[p].pc = "returned")
    => LET single == getSprintStatusOn([disk EXCEPT !.sprint = last.pre],
                                       config, today)
       IN  /\ disk.sprint = single.disk.sprint
           /\ \A p \in Procs :
                proc[p].task[1].currentDay = single.ret.currentDay
           /\ (last.pre.st = "ok" /\ last.pre.data.lastWorkDay # today)
              => /\ disk.sprint.st = "ok"
                 /\ disk.sprint.data.currentDay =
                        IF today - last.pre.data.lastWorkDay > 1 THEN 1
                        ELSE last.pre.data.currentDay + 1
                 /\ \A p \in Procs :
                        proc[p].task[1].currentDay = disk.sprint.data.currentDay

\* the first calls of the day after day 12 of a sprint: both invocations
\* loaded the store of the day before, both saved, and day 13 is stored
C30_Witness ==
    /\ \A p \in Procs :
            /\ proc[p].pc = "returned"
            /\ proc[p].loaded[1].lastWorkDay = today - 1
            /\ proc[p].loaded[1].currentDay = 12
            /\ proc[p].task[1].currentDay = 13
    /\ disk.sprint.data.currentDay = 13
    /\ disk.sprint.data.lastWorkDay = today

====
